---------------------------- MODULE Spec2Model ----------------------------
(***************************************************************************)
(* A model of the SDD document consistency scripts gap_id.py and           *)
(* xref_check.py (src/claude/skills/sdd-spec-updater/scripts).             *)
(*                                                                         *)
(* Text is modelled as a sequence of lexical atoms: a line is a sequence   *)
(* of atoms, an atom is either one punctuation character or one lexeme the *)
(* regular expressions of the scripts never look inside (a word, an        *)
(* identifier GAP-nnn, a file extension).  The regular expressions are     *)
(* operators over such sequences.  A path is a sequence of segments, a     *)
(* segment a sequence of atoms (y.md is <<"y", ".md">>).                   *)
(***************************************************************************)
EXTENDS Integers, Sequences, FiniteSets, TLC

VARIABLES fs,            \* the file system: path -> [lines, readable]
          argv,          \* the command line of the run
          prog,          \* the script that ran last: "none", "gap_id", "xref_check"
          exit_code,     \* its exit status (-1: nothing ran yet)
          gap_report,    \* what gap_id.py computed (its JSON output)
          xref_report,   \* what xref_check.py computed (its JSON output)
          defined_gaps   \* the local defined_gaps of check_gap_references

vars == <<fs, argv, prog, exit_code, gap_report, xref_report, defined_gaps>>

(***************************************************************************)
(* Bounds of the model.                                                    *)
(***************************************************************************)
MaxFenceLines == 4
MaxRegLines == 2
MaxRegLinesB == 1
MaxLinkLines == 2
MaxTermLines == 2
MaxOutLines == 2
MaxIoLines == 1
MaxRowLines == 2
MaxSubLines == 1
MaxOuterLines == 2
MaxNestLines == 4

(***************************************************************************)
(* Generic helpers.                                                        *)
(***************************************************************************)
Range(s) == {s[i] : i \in DOMAIN s}

SeqsUpTo(S, n) == UNION {[1..k -> S] : k \in 0..n}

Min(S) == CHOOSE x \in S : \A y \in S : x <= y

Max(S) == CHOOSE x \in S : \A y \in S : y <= x

RECURSIVE Flatten(_)
Flatten(ss) == IF ss = <<>> THEN <<>> ELSE Head(ss) \o Flatten(Tail(ss))

\* the indices of s, ascending, as a sequence
Indices(s) == [i \in 1..Len(s) |-> i]

(***************************************************************************)
(* The lexical layer.                                                      *)
(***************************************************************************)
\* atoms made of one or more non-word characters
Backtick == "BACKTICK"

Punct == {Backtick, "~", " ", "|", "#", "*", "[", "]", "(", ")", "/", ".", ".."}

\* the atoms GAP-ddd.. ; int(match.group(1)) of each
GapNumber == ("GAP-000" :> 0) @@ ("GAP-001" :> 1) @@ ("GAP-002" :> 2) @@ ("GAP-003" :> 3)

GapTokens == DOMAIN GapNumber

\* f"GAP-{k:03d}"
FormatGap(k) == CHOOSE t \in GapTokens : GapNumber[t] = k

\* an atom whose first character is a word character (\w)
StartsWord(t) == t \notin Punct /\ t \notin {".md", ".png"}

\* an atom whose last character is a word character (\w)
EndsWord(t) == t \notin Punct /\ t \notin {"http://", "https://", "mailto:"}

\* the number of characters of an atom
TokLen(t) ==
    CASE t \in Punct \ {".."} -> 1
      [] t = ".." -> 2
      [] t \in GapTokens -> 7
      [] t \in {".md", "see"} -> 3
      [] t = "sk" -> 2
      [] t = ".png" -> 4
      [] t \in {"SecKey", "seckey", "SECKEY"} -> 6
      [] t \in {"http://", "mailto:"} -> 7
      [] t = "https://" -> 8
      [] OTHER -> 1

\* str.lower() of an atom, for re.IGNORECASE
Lower(t) == IF t \in {"SecKey", "SECKEY"} THEN "seckey" ELSE t

\* the first index j >= i of s with s[j] # tok (Len(s) + 1 when there is none):
\* where a greedy tok* starting at i stops
SkipRun(s, i, tok) == Min({j \in i..(Len(s) + 1) : j = Len(s) + 1 \/ s[j] # tok})

\* str.strip(): the text without its leading and trailing white space
Strip(line) ==
    LET keep == {i \in 1..Len(line) : line[i] # " "} IN
    IF keep = {} THEN <<>> ELSE SubSeq(line, Min(keep), Max(keep))

RECURSIVE CharLen(_)
CharLen(s) == IF s = <<>> THEN 0 ELSE TokLen(Head(s)) + CharLen(Tail(s))

\* s[:120]: the longest prefix of s of at most TextLimit characters
TextLimit == 120

Cut(s) ==
    LET fit == {k \in 0..Len(s) : CharLen(SubSeq(s, 1, k)) <= TextLimit} IN
    SubSeq(s, 1, Max(fit))

\* line.strip()[:120]
Text(line) == Cut(Strip(line))

(***************************************************************************)
(* Fence delimiters.  None stands for Python's None.                       *)
(***************************************************************************)
None == [char |-> "none", len |-> 0]

\* ^(`{3,}|~{3,}) matched at the start of s: the length of the run (0: no match)
FenceRun(s) ==
    IF s = <<>> \/ s[1] \notin {Backtick, "~"} THEN 0
    ELSE LET run == SkipRun(s, 1, s[1]) - 1 IN IF run >= 3 THEN run ELSE 0

\* gap_id.py FENCE_PATTERN.match(s)
gap_FENCE_PATTERN(s) == FenceRun(s)

\* xref_check.py FENCE_PATTERN with the tilde alternative lost: ^(`{3,})
xref_FENCE_PATTERN_backticks(s) == IF s # <<>> /\ s[1] = Backtick THEN FenceRun(s) ELSE 0

\* xref_check.py FENCE_PATTERN.match(s)
xref_FENCE_PATTERN(s) == FenceRun(s)

\* _fence_token with the pattern anchored at both ends, ^(`{3,}|~{3,})$: a
\* delimiter with an info string is no delimiter
gap_fence_token_bare(line) ==
    LET s == Strip(line)
        n == gap_FENCE_PATTERN(s)
    IN  IF n > 0 /\ n = Len(s) THEN [char |-> s[1], len |-> n] ELSE None

\* gap_id.py _fence_token
gap_fence_token(line) ==
    LET s == Strip(line)
        n == gap_FENCE_PATTERN(s)
    IN  IF n > 0 THEN [char |-> s[1], len |-> n] ELSE None

\* xref_check.py _fence_token
xref_fence_token(line) ==
    LET s == Strip(line)
        n == xref_FENCE_PATTERN(s)
    IN  IF n > 0 THEN [char |-> s[1], len |-> n] ELSE None

\* the fence state after a delimiter line with token ft, as each of the five scan
\* loops computes it
\* scan_gap_ids, lines 54-57
FenceStepScan(fence_opener, ft) ==
    IF fence_opener = None THEN ft
    ELSE IF ft.char = fence_opener.char /\ ft.len >= fence_opener.len THEN None
    ELSE fence_opener

\* the fence step in which a delimiter that does not close the open fence takes
\* the opener's place: fence_opener = ft in an else branch
FenceStepLinks_replace(fence_opener, ft) ==
    IF fence_opener = None THEN ft
    ELSE IF ft.char = fence_opener.char /\ ft.len >= fence_opener.len THEN None
    ELSE ft

\* check_broken_links, lines 62-65
FenceStepLinks(fence_opener, ft) ==
    IF fence_opener = None THEN ft
    ELSE IF ft.char = fence_opener.char /\ ft.len >= fence_opener.len THEN None
    ELSE fence_opener

\* check_gap_references, first pass, lines 115-118
FenceStepPass1(fence_opener, ft) ==
    IF fence_opener = None THEN ft
    ELSE IF ft.char = fence_opener.char /\ ft.len >= fence_opener.len THEN None
    ELSE fence_opener

\* the closing test without the length: ft[0] == fence_opener[0]
FenceStepPass2_anylen(fence_opener, ft) ==
    IF fence_opener = None THEN ft
    ELSE IF ft.char = fence_opener.char THEN None
    ELSE fence_opener

\* check_gap_references, second pass, lines 142-145
FenceStepPass2(fence_opener, ft) ==
    IF fence_opener = None THEN ft
    ELSE IF ft.char = fence_opener.char /\ ft.len >= fence_opener.len THEN None
    ELSE fence_opener

\* the closing test without the character: ft[1] >= fence_opener[1]
FenceStepTerm_anychar(fence_opener, ft) ==
    IF fence_opener = None THEN ft
    ELSE IF ft.len >= fence_opener.len THEN None
    ELSE fence_opener

\* check_terminology, lines 194-197
FenceStepTerm(fence_opener, ft) ==
    IF fence_opener = None THEN ft
    ELSE IF ft.char = fence_opener.char /\ ft.len >= fence_opener.len THEN None
    ELSE fence_opener

(***************************************************************************)
(* GAP_PATTERN = \bGAP-(\d{3,})\b : the positions of its matches in a line, *)
(* left to right (finditer).                                               *)
(***************************************************************************)
GapMatchAt(line, i) ==
    /\ line[i] \in GapTokens
    /\ (i = 1 \/ ~EndsWord(line[i - 1]))
    /\ (i = Len(line) \/ ~StartsWord(line[i + 1]))

\* gap_id.py GAP_PATTERN.finditer(line)
gap_GAP_PATTERN_finditer(line) ==
    LET Hit(i) == GapMatchAt(line, i) IN SelectSeq(Indices(line), Hit)

\* xref_check.py GAP_PATTERN.finditer(line)
xref_GAP_PATTERN_finditer(line) ==
    LET Hit(i) == GapMatchAt(line, i) IN SelectSeq(Indices(line), Hit)

(***************************************************************************)
(* The definition patterns, over a text t.                                 *)
(***************************************************************************)
\* \*?\*?GAP-\d{3,} matches at position j of t
StarsGapAt(t, j) ==
    \E stars \in 0..2 :
        /\ j + stars <= Len(t)
        /\ \A k \in j..(j + stars - 1) : t[k] = "*"
        /\ t[j + stars] \in GapTokens

\* ^\|\s*\*?\*?GAP-\d{3,}
TableRowPattern(t) ==
    /\ Len(t) >= 1
    /\ t[1] = "|"
    /\ \E j \in 2..SkipRun(t, 2, " ") : StarsGapAt(t, j)

\* ^#+\s+\*?\*?GAP-\d{3,}
HeaderPattern(t) ==
    /\ Len(t) >= 1
    /\ t[1] = "#"
    /\ LET h == SkipRun(t, 1, "#")       \* the first position after the #s
       IN  \E j \in (h + 1)..SkipRun(t, h, " ") : StarsGapAt(t, j)

\* ^\|\s*GAP-\d{3,}\s*\|
TableCellPattern(t) ==
    /\ Len(t) >= 1
    /\ t[1] = "|"
    /\ \E j \in 2..SkipRun(t, 2, " ") :
          /\ j <= Len(t)
          /\ t[j] \in GapTokens
          /\ LET e == SkipRun(t, j + 1, " ") IN e <= Len(t) /\ t[e] = "|"

(***************************************************************************)
(* Paths.                                                                  *)
(***************************************************************************)
docs_root == << <<"docs">> >>

IsPrefix(p, q) == Len(p) <= Len(q) /\ SubSeq(q, 1, Len(p)) = p

\* Path.exists() and Path.is_dir() on the file system f
IsFile(f, p) == p \in DOMAIN f

IsDir(f, p) == \E q \in DOMAIN f : IsPrefix(p, q) /\ p # q

Exists(f, p) == IsFile(f, p) \/ IsDir(f, p)

\* the name ends with .md
EndsWithMd(p) == p # <<>> /\ p[Len(p)] # <<>> /\ p[Len(p)][Len(p[Len(p)])] = ".md"

\* md_file.parent
Parent(p) == SubSeq(p, 1, Len(p) - 1)

\* md_file.relative_to(docs_root)
RelativeTo(p, root) == SubSeq(p, Len(root) + 1, Len(p))

\* the order of path segments' atoms (the character order of the names used)
AtomRank ==
    (".." :> 0) @@ (".md" :> 1) @@ ("a" :> 2) @@ ("b" :> 3) @@ ("dir1" :> 4) @@
    ("dir2" :> 5) @@ ("doc" :> 6) @@ ("docs" :> 7) @@ ("m" :> 8) @@ ("other" :> 9) @@
    ("y" :> 10) @@ ("z" :> 11)

RECURSIVE SeqLess(_, _, _)
\* lexicographic order of two sequences under the order Less of their elements
SeqLess(a, b, atoms) ==
    IF b = <<>> THEN FALSE
    ELSE IF a = <<>> THEN TRUE
    ELSE IF Head(a) = Head(b) THEN SeqLess(Tail(a), Tail(b), atoms)
    ELSE IF atoms THEN AtomRank[Head(a)] < AtomRank[Head(b)]
    ELSE SeqLess(Head(a), Head(b), TRUE)

\* Path.__lt__: the order of the parts
PathLess(p, q) == SeqLess(p, q, FALSE)

RECURSIVE Sorted(_)
\* sorted(paths)
Sorted(S) ==
    IF S = {} THEN <<>>
    ELSE LET least == CHOOSE p \in S : \A q \in S \ {p} : PathLess(p, q)
         IN  <<least>> \o Sorted(S \ {least})

\* docs_root.rglob("*.md") on the file system f
Rglob(f, root) == {p \in DOMAIN f : IsPrefix(root, p) /\ p # root /\ EndsWithMd(p)}

\* md_file.read_text(encoding="utf-8").splitlines(); Unreadable stands for the
\* OSError or UnicodeDecodeError
Readable(f, p) == IsFile(f, p) /\ f[p].readable

ReadLines(f, p) == f[p].lines

(***************************************************************************)
(* gap_id.py                                                               *)
(***************************************************************************)
\* the occurrences of one prose line taken from the set of its identifiers: one
\* for each distinct identifier of the line
ScanOccurrences_once(rel, line_num, line_text) ==
    LET at == gap_GAP_PATTERN_finditer(line_text)
        First(k) == \A j \in 1..(k - 1) : line_text[at[j]] # line_text[at[k]]
        kept == SelectSeq(Indices(at), First)
    IN  [k \in 1..Len(kept) |->
            [gap_num |-> GapNumber[line_text[at[kept[k]]]],
             occ |-> [file |-> rel, line |-> line_num, text |-> Text(line_text)]]]

\* scan_gap_ids, lines 61-69: the occurrences of one prose line
ScanOccurrences(rel, line_num, line_text) ==
    LET at == gap_GAP_PATTERN_finditer(line_text) IN
    [k \in 1..Len(at) |->
        [gap_num |-> GapNumber[line_text[at[k]]],
         occ |-> [file |-> rel, line |-> line_num, text |-> Text(line_text)]]]

RECURSIVE ScanLines(_, _, _, _)
\* scan_gap_ids, lines 50-69: the loop over the lines of one file, from line
\* line_num on with fence state fence_opener
ScanLines(rel, lines, line_num, fence_opener) ==
    IF line_num > Len(lines) THEN <<>>
    ELSE LET line_text == lines[line_num]
             ft == gap_fence_token(line_text)
         IN  IF ft # None
             THEN ScanLines(rel, lines, line_num + 1,
                     FenceStepScan(fence_opener, ft))
             ELSE IF fence_opener # None
             THEN ScanLines(rel, lines, line_num + 1, fence_opener)
             ELSE ScanOccurrences(rel, line_num, line_text)
                      \o ScanLines(rel, lines, line_num + 1, fence_opener)

\* scan_gap_ids, lines 43-50: one file
ScanFile(f, root, md_file) ==
    IF ~Readable(f, md_file) THEN <<>>
    ELSE ScanLines(RelativeTo(md_file, root), ReadLines(f, md_file), 1, None)

\* the dictionary built with results[gap_num] = [occurrence] for the append: each
\* key keeps its last occurrence
Grouped_last(flat) ==
    [n \in {flat[i].gap_num : i \in DOMAIN flat} |->
        LET Mine(e) == e.gap_num = n
            mine == SelectSeq(flat, Mine)
        IN  <<mine[Len(mine)].occ>>]

\* the dictionary {key: [values]} a sequence of appends (key, value) builds
Grouped(flat) ==
    [n \in {flat[i].gap_num : i \in DOMAIN flat} |->
        LET Mine(e) == e.gap_num = n
            mine == SelectSeq(flat, Mine)
        IN  [i \in 1..Len(mine) |-> mine[i].occ]]

\* scan_gap_ids
scan_gap_ids(f, root) ==
    LET files == Sorted(Rglob(f, root))
    IN  Grouped(Flatten([i \in 1..Len(files) |-> ScanFile(f, root, files[i])]))

\* find_definitions, line 85: any(p.search(occ["text"]) for p in definition_patterns)
IsDefinitionText(text) ==
    TableRowPattern(text) \/ HeaderPattern(text) \/ TableCellPattern(text)

\* find_definitions
find_definitions(gap_ids) ==
    LET IsDef(occ) == IsDefinitionText(occ.text)
        kept == [n \in DOMAIN gap_ids |-> SelectSeq(gap_ids[n], IsDef)]
    IN  [n \in {m \in DOMAIN gap_ids : kept[m] # <<>>} |-> kept[n]]

\* the duplicate test on the number of definitions: len(defs) > 1
Duplicates_count(definitions) ==
    [n \in {m \in DOMAIN definitions : Len(definitions[m]) > 1} |-> definitions[n]]

\* the duplicates entry cut down to the first definition of each document
Duplicates_perFile(definitions) ==
    LET unique_files(n) == {definitions[n][i].file : i \in DOMAIN definitions[n]}
        First(n) == {i \in DOMAIN definitions[n] :
                        \A j \in 1..(i - 1) : definitions[n][j].file # definitions[n][i].file}
    IN  [n \in {m \in DOMAIN definitions : Cardinality(unique_files(m)) > 1} |->
            LET Keep(i) == i \in First(n)
                idx == SelectSeq([i \in 1..Len(definitions[n]) |-> i], Keep)
            IN  [k \in 1..Len(idx) |-> definitions[n][idx[k]]]]

\* main, lines 118-122
Duplicates(definitions) ==
    LET unique_files(n) == {definitions[n][i].file : i \in DOMAIN definitions[n]}
    IN  [n \in {m \in DOMAIN definitions : Cardinality(unique_files(m)) > 1} |->
            definitions[n]]

\* the allocation from the number of defined identifiers: len(definitions)
MaxId_count(definitions) == Cardinality(DOMAIN definitions)

\* main, line 125
MaxId(definitions) == IF DOMAIN definitions # {} THEN Max(DOMAIN definitions) ELSE 0

\* main, line 126
NextId(max_id) == max_id + 1

NoGapReport ==
    [all_ids |-> <<>>, definitions |-> <<>>, duplicates |-> <<>>,
     max_id |-> -1, next_id |-> -1, printed |-> FALSE]

\* main, lines 113-135: the report (max_id -1 stands for null)
GapReport(f, root) ==
    LET all_ids == scan_gap_ids(f, root)
        definitions == find_definitions(all_ids)
        max_id == MaxId(definitions)
    IN  [all_ids |-> all_ids,
         definitions |-> definitions,
         duplicates |-> Duplicates(definitions),
         max_id |-> IF max_id > 0 THEN max_id ELSE -1,
         next_id |-> NextId(max_id),
         printed |-> TRUE]

(***************************************************************************)
(* xref_check.py                                                           *)
(***************************************************************************)
\* find_md_files
find_md_files(f, root, changed_files) ==
    IF changed_files # <<>>
    THEN LET Keep(p) == EndsWithMd(p) /\ Exists(f, p) IN SelectSeq(changed_files, Keep)
    ELSE Sorted(Rglob(f, root))

\* every finding is a record of this shape; a field its type does not have is empty
Issue(type, file, line) ==
    [type |-> type, file |-> file, line |-> line, link_text |-> <<>>, target |-> <<>>,
     resolved |-> <<>>, gap_id |-> "", text |-> <<>>, found |-> "", canonical |-> ""]

RECURSIVE MD_LINK_PATTERN_finditer(_, _)
\* MD_LINK_PATTERN = \[([^\]]*)\]\(([^)]+)\) : the matches in line from position
\* pos on, left to right, each with its groups 1 and 2
MD_LINK_PATTERN_finditer(line, pos) ==
    IF pos > Len(line) THEN <<>>
    ELSE IF line[pos] # "[" THEN MD_LINK_PATTERN_finditer(line, pos + 1)
    ELSE LET n == Len(line)
             \* [^\]]* stops at the first ] after pos
             close == Min({j \in (pos + 1)..(n + 1) : j = n + 1 \/ line[j] = "]"})
             \* [^)]+ stops at the first ) after the (
             paren == Min({j \in (close + 2)..(n + 1) : j >= n + 1 \/ line[j] = ")"})
             matched == /\ close + 1 <= n
                        /\ line[close + 1] = "("
                        /\ paren <= n
                        /\ paren > close + 2
         IN  IF matched
             THEN <<[link_text |-> SubSeq(line, pos + 1, close - 1),
                     link_target |-> SubSeq(line, close + 2, paren - 1)]>>
                      \o MD_LINK_PATTERN_finditer(line, paren + 1)
             ELSE MD_LINK_PATTERN_finditer(line, pos + 1)

\* RELATIVE_LINK without its negative lookahead: ^(.+\.md)(#.*)?$
RelativeLinkEnds_any(target) ==
    {e \in 2..Len(target) :
        /\ target[e] = ".md"
        /\ (e = Len(target) \/ target[e + 1] = "#")}

\* RELATIVE_LINK = ^(?!https?://|mailto:|#)(.+\.md)(#.*)?$ : the ends e of group 1
\* (.+\.md) for which the pattern matches target
RelativeLinkEnds(target) ==
    {e \in 2..Len(target) :
        /\ target[1] \notin {"http://", "https://", "mailto:", "#"}
        /\ target[e] = ".md"
        /\ (e = Len(target) \/ target[e + 1] = "#")}

\* RELATIVE_LINK.match(link_target) is not None
RELATIVE_LINK_match(target) == RelativeLinkEnds(target) # {}

\* rel_match.group(1): .+ is greedy
RELATIVE_LINK_group1(target) == SubSeq(target, 1, Max(RelativeLinkEnds(target)))

RECURSIVE SplitPath(_, _)
\* the segments of a path string: the atoms between the "/"s, cur being the
\* segment read so far
SplitPath(s, cur) ==
    IF s = <<>> THEN <<cur>>
    ELSE IF Head(s) = "/" THEN <<cur>> \o SplitPath(Tail(s), <<>>)
    ELSE SplitPath(Tail(s), Append(cur, Head(s)))

\* md_file.parent / target_path: pathlib drops empty and "." segments, and an
\* absolute target_path replaces the left operand
JoinPath(dir, target_path) ==
    LET Kept(seg) == seg # <<>> /\ seg # <<".">>
        parts == SelectSeq(SplitPath(target_path, <<>>), Kept)
    IN  IF target_path # <<>> /\ Head(target_path) = "/" THEN parts ELSE dir \o parts

RECURSIVE Resolve(_, _)
\* Path.resolve() of the absolute path done \o rest: ".." removes the segment
\* before it (symbolic links are not modelled)
Resolve(done, rest) ==
    IF rest = <<>> THEN done
    ELSE IF Head(rest) = <<"..">>
    THEN Resolve(IF done = <<>> THEN <<>> ELSE SubSeq(done, 1, Len(done) - 1), Tail(rest))
    ELSE Resolve(Append(done, Head(rest)), Tail(rest))

\* the target resolved against the scan root: (docs_root / target_path).resolve()
LinkIssues_root(f, md_file, line_num, line) ==
    LET found == MD_LINK_PATTERN_finditer(line, 1)
        Checkable(m) == RELATIVE_LINK_match(m.link_target)
        Resolved(m) ==
            Resolve(<<>>, JoinPath(docs_root, RELATIVE_LINK_group1(m.link_target)))
        Broken(m) == Checkable(m) /\ ~Exists(f, Resolved(m))
        broken == SelectSeq(found, Broken)
    IN  [k \in 1..Len(broken) |->
            [Issue("broken_link", md_file, line_num) EXCEPT
                !.link_text = broken[k].link_text,
                !.target = RELATIVE_LINK_group1(broken[k].link_target),
                !.resolved = Resolved(broken[k])]]

\* check_broken_links, lines 69-90: the findings of one prose line
LinkIssues(f, md_file, line_num, line) ==
    LET found == MD_LINK_PATTERN_finditer(line, 1)
        Checkable(m) == RELATIVE_LINK_match(m.link_target)
        Resolved(m) ==
            Resolve(<<>>, JoinPath(Parent(md_file), RELATIVE_LINK_group1(m.link_target)))
        Broken(m) == Checkable(m) /\ ~Exists(f, Resolved(m))
        broken == SelectSeq(found, Broken)
    IN  [k \in 1..Len(broken) |->
            [Issue("broken_link", md_file, line_num) EXCEPT
                !.link_text = broken[k].link_text,
                !.target = RELATIVE_LINK_group1(broken[k].link_target),
                !.resolved = Resolved(broken[k])]]

RECURSIVE LinkLines(_, _, _, _, _)
\* check_broken_links, lines 58-90: the loop over the lines of one file
LinkLines(f, md_file, lines, line_num, fence_opener) ==
    IF line_num > Len(lines) THEN <<>>
    ELSE LET line == lines[line_num]
             ft == xref_fence_token(line)
         IN  IF ft # None
             THEN LinkLines(f, md_file, lines, line_num + 1,
                     FenceStepLinks(fence_opener, ft))
             ELSE IF fence_opener # None
             THEN LinkLines(f, md_file, lines, line_num + 1, fence_opener)
             ELSE LinkIssues(f, md_file, line_num, line)
                      \o LinkLines(f, md_file, lines, line_num + 1, fence_opener)

RECURSIVE LinksFenceAfter(_, _, _)
\* the fence state the loop of check_broken_links leaves at the end of a file
LinksFenceAfter(lines, line_num, fence_opener) ==
    IF line_num > Len(lines) THEN fence_opener
    ELSE LET ft == xref_fence_token(lines[line_num])
         IN  LinksFenceAfter(lines, line_num + 1,
                 IF ft # None THEN FenceStepLinks(fence_opener, ft) ELSE fence_opener)

RECURSIVE LinksCarried(_, _, _, _)
LinksCarried(f, files, i, fence_opener) ==
    IF i > Len(files) THEN <<>>
    ELSE IF ~Readable(f, files[i]) THEN LinksCarried(f, files, i + 1, fence_opener)
    ELSE LinkLines(f, files[i], ReadLines(f, files[i]), 1, fence_opener)
             \o LinksCarried(f, files, i + 1,
                    LinksFenceAfter(ReadLines(f, files[i]), 1, fence_opener))

\* check_broken_links with fence_opener = None set once, before the loop over
\* the files
check_broken_links_hoisted(f, files) == LinksCarried(f, files, 1, None)

\* check_broken_links
check_broken_links(f, files) ==
    Flatten([i \in 1..Len(files) |->
        IF ~Readable(f, files[i]) THEN <<>>
        ELSE LinkLines(f, files[i], ReadLines(f, files[i]), 1, None)])

\* check_gap_references, lines 125-127: what one prose line adds to defined_gaps
\* (re.match on the line as read)
DefinedOnLine(line) ==
    IF TableRowPattern(line) \/ HeaderPattern(line)
    THEN LET at == xref_GAP_PATTERN_finditer(line) IN {GapNumber[line[at[k]]] : k \in DOMAIN at}
    ELSE {}

RECURSIVE DefinedLines(_, _, _)
\* check_gap_references, lines 111-127: the loop over the lines of one file
DefinedLines(lines, i, fence_opener) ==
    IF i > Len(lines) THEN {}
    ELSE LET line == lines[i]
             ft == xref_fence_token(line)
         IN  IF ft # None
             THEN DefinedLines(lines, i + 1,
                     FenceStepPass1(fence_opener, ft))
             ELSE IF fence_opener # None
             THEN DefinedLines(lines, i + 1, fence_opener)
             ELSE DefinedOnLine(line) \cup DefinedLines(lines, i + 1, fence_opener)

\* check_gap_references, lines 102-127: the first pass
DefinedGaps(f, root) ==
    UNION {IF ~Readable(f, p) THEN {} ELSE DefinedLines(ReadLines(f, p), 1, None) :
              p \in Rglob(f, root)}

\* the second pass leaving a line at its first finding (a break after the append)
GapIssues_first(defined, md_file, line_num, line) ==
    LET at == xref_GAP_PATTERN_finditer(line)
        Undefined(i) == GapNumber[line[i]] \notin defined
        bad == SelectSeq(at, Undefined)
    IN  [k \in 1..(IF bad = <<>> THEN 0 ELSE 1) |->
            [Issue("undefined_gap", md_file, line_num) EXCEPT
                !.gap_id = FormatGap(GapNumber[line[bad[k]]]),
                !.text = Text(line)]]

\* check_gap_references, lines 149-160: the findings of one prose line
GapIssues(defined, md_file, line_num, line) ==
    LET at == xref_GAP_PATTERN_finditer(line)
        Undefined(i) == GapNumber[line[i]] \notin defined
        bad == SelectSeq(at, Undefined)
    IN  [k \in 1..Len(bad) |->
            [Issue("undefined_gap", md_file, line_num) EXCEPT
                !.gap_id = FormatGap(GapNumber[line[bad[k]]]),
                !.text = Text(line)]]

RECURSIVE ReferenceLines(_, _, _, _, _)
\* check_gap_references, lines 138-160: the loop over the lines of one file
ReferenceLines(defined, md_file, lines, line_num, fence_opener) ==
    IF line_num > Len(lines) THEN <<>>
    ELSE LET line == lines[line_num]
             ft == xref_fence_token(line)
         IN  IF ft # None
             THEN ReferenceLines(defined, md_file, lines, line_num + 1,
                     FenceStepPass2(fence_opener, ft))
             ELSE IF fence_opener # None
             THEN ReferenceLines(defined, md_file, lines, line_num + 1, fence_opener)
             ELSE GapIssues(defined, md_file, line_num, line)
                      \o ReferenceLines(defined, md_file, lines, line_num + 1, fence_opener)

RECURSIVE RefsUntilFailure(_, _, _, _)
\* the second pass ending at the first document that cannot be read
RefsUntilFailure(defined, f, files, i) ==
    IF i > Len(files) \/ ~Readable(f, files[i]) THEN <<>>
    ELSE ReferenceLines(defined, files[i], ReadLines(f, files[i]), 1, None)
             \o RefsUntilFailure(defined, f, files, i + 1)

\* check_gap_references with `break` for `continue` in the except clause of the
\* second pass
check_gap_references_abort(f, files, root) ==
    RefsUntilFailure(DefinedGaps(f, root), f, files, 1)

\* check_gap_references, lines 130-162: the second pass
check_gap_references(f, files, root) ==
    LET defined == DefinedGaps(f, root) IN
    Flatten([i \in 1..Len(files) |->
        IF ~Readable(f, files[i]) THEN <<>>
        ELSE ReferenceLines(defined, files[i], ReadLines(f, files[i]), 1, None)])

RECURSIVE SkipLines_anywhere(_, _, _)
\* skip_lines with the inline-code test made on the whole line: "`" in stripped
SkipLines_anywhere(lines, line_num, fence_opener) ==
    IF line_num > Len(lines) THEN {}
    ELSE LET line == lines[line_num]
             stripped == Strip(line)
             ft == xref_fence_token(line)
         IN  IF ft # None
             THEN {line_num} \cup SkipLines_anywhere(lines, line_num + 1,
                     FenceStepTerm(fence_opener, ft))
             ELSE (IF fence_opener # None \/ Backtick \in Range(stripped)
                   THEN {line_num} ELSE {})
                      \cup SkipLines_anywhere(lines, line_num + 1, fence_opener)

RECURSIVE SkipLines(_, _, _)
\* check_terminology, lines 188-201: skip_lines of one file
SkipLines(lines, line_num, fence_opener) ==
    IF line_num > Len(lines) THEN {}
    ELSE LET line == lines[line_num]
             stripped == Strip(line)
             ft == xref_fence_token(line)
         IN  IF ft # None
             THEN {line_num} \cup SkipLines(lines, line_num + 1,
                     FenceStepTerm(fence_opener, ft))
             ELSE (IF fence_opener # None \/ (stripped # <<>> /\ stripped[1] = Backtick)
                   THEN {line_num} ELSE {})
                      \cup SkipLines(lines, line_num + 1, fence_opener)

\* re.compile(r"\b" + re.escape(variant) + r"\b", re.IGNORECASE).search(line)
VariantSearch(variant, line) ==
    \E i \in 1..Len(line) :
        /\ Lower(line[i]) = Lower(variant)
        /\ (i = 1 \/ ~EndsWord(line[i - 1]))
        /\ (i = Len(line) \/ ~StartsWord(line[i + 1]))

\* check_terminology, lines 207-222: the findings of one variant in one file
VariantIssues(md_file, lines, skip_lines, canonical, variant) ==
    LET Hit(line_num) == line_num \notin skip_lines /\ VariantSearch(variant, lines[line_num])
        hits == SelectSeq(Indices(lines), Hit)
    IN  [k \in 1..Len(hits) |->
            [Issue("terminology", md_file, hits[k]) EXCEPT
                !.found = variant,
                !.canonical = canonical,
                !.text = Text(lines[hits[k]])]]

\* check_terminology, lines 180-222: one file
TermFile(f, md_file, terms) ==
    IF ~Readable(f, md_file) THEN <<>>
    ELSE LET lines == ReadLines(f, md_file)
             skip_lines == SkipLines(lines, 1, None)
         IN  Flatten([e \in 1..Len(terms) |->
                 Flatten([v \in 1..Len(terms[e].variants) |->
                     VariantIssues(md_file, lines, skip_lines,
                                   terms[e].canonical, terms[e].variants[v])])])

\* check_terminology, lines 180-204: terminology of kind "object" is a file of
\* valid JSON that holds one entry as an object, the format the comment of line 178
\* shows, and not a list of entries: json.load succeeds, the loop of line 203 yields
\* the keys of the object, and term_entry.get raises AttributeError for the first
\* document that was read
TermRaises(f, files, terminology) ==
    /\ terminology.kind = "object"
    /\ \E i \in 1..Len(files) : Readable(f, files[i])

\* check_terminology; terminology is the state of the dictionary file: kind
\* "absent" (no path, or no such file), "unreadable" (OSError or invalid JSON),
\* "list" (a list of entries, terms) or "object" (an object: see TermRaises)
check_terminology(f, files, terminology) ==
    IF terminology.kind # "list" THEN <<>>
    ELSE Flatten([i \in 1..Len(files) |-> TermFile(f, files[i], terminology.terms)])

NoXrefReport ==
    [files_checked |-> -1, broken_links |-> <<>>, undefined_gaps |-> <<>>,
     term_issues |-> <<>>, issues |-> <<>>,
     summary |-> [broken_links |-> -1, undefined_gaps |-> -1, terminology |-> -1,
                  total |-> -1],
     printed |-> FALSE]

\* the report with the total taken before the terminology findings are added:
\* len(broken_links + undefined_gaps)
XrefReport_short(f, root, args) ==
    LET files == find_md_files(f, root, args.changed_files)
        broken_links == check_broken_links(f, files)
        undefined_gaps == check_gap_references(f, files, root)
        term_issues == check_terminology(f, files, args.terminology)
        all_issues == broken_links \o undefined_gaps \o term_issues
    IN  [files_checked |-> Len(files),
         broken_links |-> broken_links,
         undefined_gaps |-> undefined_gaps,
         term_issues |-> term_issues,
         issues |-> all_issues,
         summary |-> [broken_links |-> Len(broken_links),
                      undefined_gaps |-> Len(undefined_gaps),
                      terminology |-> Len(term_issues),
                      total |-> Len(broken_links \o undefined_gaps)],
         printed |-> TRUE]

\* main, lines 260-278: the report
XrefReport(f, root, args) ==
    LET files == find_md_files(f, root, args.changed_files)
        broken_links == check_broken_links(f, files)
        undefined_gaps == check_gap_references(f, files, root)
        term_issues == check_terminology(f, files, args.terminology)
        all_issues == broken_links \o undefined_gaps \o term_issues
    IN  [files_checked |-> Len(files),
         broken_links |-> broken_links,
         undefined_gaps |-> undefined_gaps,
         term_issues |-> term_issues,
         issues |-> all_issues,
         summary |-> [broken_links |-> Len(broken_links),
                      undefined_gaps |-> Len(undefined_gaps),
                      terminology |-> Len(term_issues),
                      total |-> Len(all_issues)],
         printed |-> TRUE]

(***************************************************************************)
(* The two programs.                                                       *)
(***************************************************************************)
\* gap_id.py main
GapIdMain ==
    /\ prog' = "gap_id"
    /\ IF ~IsDir(fs, docs_root)
       THEN /\ gap_report' = NoGapReport
            /\ exit_code' = 1
       ELSE /\ gap_report' = GapReport(fs, docs_root)
            /\ exit_code' = 0
    /\ xref_report' = NoXrefReport
    /\ defined_gaps' = {}
    /\ UNCHANGED <<fs, argv>>

\* xref_check.py main; an exception no handler catches ends the process with a
\* traceback and exit status 1 before anything is printed
XrefMain ==
    /\ prog' = "xref_check"
    /\ IF ~IsDir(fs, docs_root) /\ argv.changed_files = <<>>
       THEN /\ xref_report' = NoXrefReport
            /\ defined_gaps' = {}
            /\ exit_code' = 1
       ELSE IF TermRaises(fs, find_md_files(fs, docs_root, argv.changed_files),
                          argv.terminology)
       THEN /\ xref_report' = NoXrefReport
            /\ defined_gaps' = DefinedGaps(fs, docs_root)
            /\ exit_code' = 1
       ELSE /\ xref_report' = XrefReport(fs, docs_root, argv)
            /\ defined_gaps' = DefinedGaps(fs, docs_root)
            /\ exit_code' = IF XrefReport(fs, docs_root, argv).issues # <<>> THEN 1 ELSE 0
    /\ gap_report' = NoGapReport
    /\ UNCHANGED <<fs, argv>>

Next == GapIdMain \/ XrefMain

(***************************************************************************)
(* The inputs: lines, documents, file systems and command lines.           *)
(***************************************************************************)
\* ```py GAP-000 SecKey [x](m.md)   (a delimiter with an info string)
LineFence3 ==
    <<Backtick, Backtick, Backtick, "py", " ", "GAP-000", " ", "SecKey", " ",
      "[", "x", "]", "(", "m", ".md", ")">>

\* ````
LineFence4 == <<Backtick, Backtick, Backtick, Backtick>>

\*  ~~~   (indented)
LineTilde3 == <<" ", "~", "~", "~">>

\* | GAP-002 | x |   (a definition)
LineDef == <<"|", " ", "GAP-002", " ", "|", " ", "x", " ", "|">>

\* see GAP-001 SecKey [x](m.md)   (a reference, a variant and a link to no file)
LineMention ==
    <<"see", " ", "GAP-001", " ", "SecKey", " ", "[", "x", "]", "(", "m", ".md", ")">>

FenceLines == {LineFence3, LineFence4, LineTilde3, LineDef, LineMention}

\* # GAP-003   (a definition)
LineDefB == <<"#", " ", "GAP-003">>

\* GAP-000 seckey [x](m.md)   (a reference, a variant and a link to no file)
LineMentionB == <<"GAP-000", " ", "seckey", " ", "[", "x", "]", "(", "m", ".md", ")">>

\* the document scanned after the document of fence lines
DocAfter == <<LineDefB, LineMentionB>>

\* | GAP-001 | x |
LineRow == <<"|", " ", "GAP-001", " ", "|", " ", "x", " ", "|">>

\* ## **GAP-002**
LineHeading == <<"#", "#", " ", "*", "*", "GAP-002", "*", "*">>

\* see GAP-001 GAP-002
LineRefs == <<"see", " ", "GAP-001", " ", "GAP-002">>

\*   | GAP-002 | x |   (an indented table row)
LineIndentedRow == <<" ", " ", "|", " ", "GAP-002", " ", "|", " ", "x", " ", "|">>

\* | GAP-001 | see GAP-003 |
LineRowWithRef ==
    <<"|", " ", "GAP-001", " ", "|", " ", "see", " ", "GAP-003", " ", "|">>

\* | GAP-000 | x |
LineRowZero == <<"|", " ", "GAP-000", " ", "|", " ", "x", " ", "|">>

RegLines == {LineRow, LineHeading, LineRefs, LineIndentedRow, LineRowWithRef, LineRowZero}

\* the lines of the second document of a registry corpus
RegLinesB == {LineRow, LineRefs, LineIndentedRow}

\* [x](../y.md)
LineLinkUp == <<"[", "x", "]", "(", "..", "/", "y", ".md", ")">>

\* see [x](./y.md#sec) [z](y.md)
LineLinkHere ==
    <<"see", " ", "[", "x", "]", "(", ".", "/", "y", ".md", "#", "sec", ")", " ",
      "[", "z", "]", "(", "y", ".md", ")">>

\* [x](http://h/y.md)
LineLinkUrl == <<"[", "x", "]", "(", "http://", "h", "/", "y", ".md", ")">>

LinkLineSet == {LineLinkUp, LineLinkHere, LineLinkUrl}

FileA == << <<"docs">>, <<"a", ".md">> >>

FileB == << <<"docs">>, <<"b", ".md">> >>

FileDoc == << <<"docs">>, <<"dir1">>, <<"dir2">>, <<"doc", ".md">> >>

\* the places a y.md may be at
FileYs ==
    { << <<"docs">>, <<"y", ".md">> >>,
      << <<"docs">>, <<"dir1">>, <<"y", ".md">> >>,
      << <<"docs">>, <<"dir1">>, <<"dir2">>, <<"y", ".md">> >> }

File(lines) == [lines |-> lines, readable |-> TRUE]

\* the fence corpora: a.md is any document of fence and content lines, b.md the
\* document DocAfter
FenceCorpora ==
    {(FileA :> File(a)) @@ (FileB :> File(DocAfter)) :
        a \in SeqsUpTo(FenceLines, MaxFenceLines)}

\* the registry corpora: two documents of definition and reference lines
RegCorpora ==
    {(FileA :> File(a)) @@ (FileB :> File(b)) :
        a \in SeqsUpTo(RegLines, MaxRegLines), b \in SeqsUpTo(RegLinesB, MaxRegLinesB)}

\* the link corpora: a document of links two directories down, and empty
\* documents y.md at some of the places the links may mean
LinkCorpora ==
    {(FileDoc :> File(d)) @@ [y \in ys |-> File(<<>>)] :
        d \in SeqsUpTo(LinkLineSet, MaxLinkLines), ys \in SUBSET FileYs}

Terms == <<[canonical |-> "Secret Key", variants |-> <<"SecKey">>]>>

Args(changed_files) ==
    [changed_files |-> changed_files,
     terminology |-> [kind |-> "list", terms |-> Terms]]

Init ==
    /\ \/ fs \in FenceCorpora /\ argv = Args(<<>>)
       \/ fs \in RegCorpora /\ argv \in {Args(<<>>), Args(<<FileA>>), Args(<<FileB>>)}
       \/ fs \in LinkCorpora /\ argv = Args(<<>>)
    /\ prog = "none"
    /\ exit_code = -1
    /\ gap_report = NoGapReport
    /\ xref_report = NoXrefReport
    /\ defined_gaps = {}

Spec == Init /\ [][Next]_vars

(***************************************************************************)
(* The vocabulary of the properties: fences as the specification words     *)
(* them, and what a report says of a line.                                 *)
(***************************************************************************)
\* a fence delimiter line: the trimmed content starts with three or more
\* identical fence characters
IsDelimiter(line) ==
    LET s == Strip(line) IN
    /\ Len(s) >= 3
    /\ s[1] \in {Backtick, "~"}
    /\ s[2] = s[1]
    /\ s[3] = s[1]

DelimChar(line) == Strip(line)[1]

\* the run-length of a delimiter line
DelimLen(line) ==
    LET s == Strip(line) IN Max({n \in 1..Len(s) : \A k \in 1..n : s[k] = s[1]})

\* line c is a delimiter that matches the opener at line o
Matches(lines, o, c) ==
    /\ IsDelimiter(lines[c])
    /\ DelimChar(lines[c]) = DelimChar(lines[o])
    /\ DelimLen(lines[c]) >= DelimLen(lines[o])

\* the matching close of the opener at line o: the first later line that matches
\* it (0: the fence is never closed)
MatchingClose(lines, o) ==
    LET closers == {c \in (o + 1)..Len(lines) : Matches(lines, o, c)} IN
    IF closers = {} THEN 0 ELSE Min(closers)

RECURSIVE Openers(_, _)
\* the fence-open lines of a document from line `from` on, no fence being open
\* there: the first delimiter line, and the openers after its matching close
Openers(lines, from) ==
    LET delims == {d \in from..Len(lines) : IsDelimiter(lines[d])} IN
    IF delims = {} THEN {}
    ELSE LET o == Min(delims)
             c == MatchingClose(lines, o)
         IN  {o} \cup (IF c = 0 THEN {} ELSE Openers(lines, c + 1))

\* the lines strictly between a fence-open line and its matching close
FencedInterior(lines) ==
    {i \in 1..Len(lines) :
        \E o \in Openers(lines, 1) :
            MatchingClose(lines, o) # 0 /\ o < i /\ i < MatchingClose(lines, o)}

\* the lines after a fence-open line that no matching close precedes or is
InOpenFence(lines) ==
    {i \in 1..Len(lines) :
        \E o \in Openers(lines, 1) :
            o < i /\ \A c \in (o + 1)..i : ~Matches(lines, o, c)}

\* the document ends with its fence open
EndsUnclosed(lines) == \E o \in Openers(lines, 1) : MatchingClose(lines, o) = 0

\* a prose line of a document read on its own
IsProse(lines, i) == ~IsDelimiter(lines[i]) /\ i \notin InOpenFence(lines)

\* the documents under the scan root, and the identifiers a line holds
Corpus == {p \in DOMAIN fs : IsPrefix(docs_root, p) /\ EndsWithMd(p) /\ fs[p].readable}

IdsOn(line) == {GapNumber[line[i]] : i \in {j \in 1..Len(line) : GapMatchAt(line, j)}}

\* the documents the cross-reference run was asked to check
Targets ==
    IF argv.changed_files = <<>>
    THEN {p \in DOMAIN fs : IsPrefix(docs_root, p) /\ EndsWithMd(p)}
    ELSE {p \in Range(argv.changed_files) : EndsWithMd(p) /\ Exists(fs, p)}

\* the lines of document p (none when there is no such file)
Lines(p) == IF p \in DOMAIN fs THEN fs[p].lines ELSE <<>>

\* a program has run to its report
GapRan == prog = "gap_id" /\ gap_report.printed

XrefRan == prog = "xref_check" /\ xref_report.printed

\* the occurrences a registry index (all_ids, definitions, duplicates) holds for
\* line i of document p
IndexAt(index, p, i) ==
    {<<n, k>> \in UNION {{n} \X DOMAIN index[n] : n \in DOMAIN index} :
        index[n][k].file = RelativeTo(p, docs_root) /\ index[n][k].line = i}

\* the findings a list holds for line i of document p
FindingsAt(list, p, i) == {k \in DOMAIN list : list[k].file = p /\ list[k].line = i}

\* no report says anything of line i of document p
Silent(p, i) ==
    /\ IndexAt(gap_report.all_ids, p, i) = {}
    /\ IndexAt(gap_report.definitions, p, i) = {}
    /\ IndexAt(gap_report.duplicates, p, i) = {}
    /\ FindingsAt(xref_report.issues, p, i) = {}
    /\ FindingsAt(xref_report.broken_links, p, i) = {}
    /\ FindingsAt(xref_report.undefined_gaps, p, i) = {}
    /\ FindingsAt(xref_report.term_issues, p, i) = {}

\* the content lines of the fence corpora: every checker has something to say of
\* one when it takes it for prose (no document of these corpora defines the
\* identifiers the two reference lines name)
LoudLine(line) == line \in {LineDef, LineMention, LineDefB, LineMentionB}

\* every checker of the program that ran took line i of p, a loud line, for prose
Heard(p, i) ==
    LET line == fs[p].lines[i] IN
    /\ GapRan => IndexAt(gap_report.all_ids, p, i) # {}
    /\ GapRan /\ line \in {LineDef, LineDefB} => IndexAt(gap_report.definitions, p, i) # {}
    /\ XrefRan /\ line \in {LineDef, LineDefB} /\ p \in Corpus =>
          IdsOn(line) \subseteq defined_gaps
    /\ XrefRan /\ line \in {LineMention, LineMentionB} /\ p \in Targets =>
          /\ \E k \in FindingsAt(xref_report.broken_links, p, i) :
                xref_report.broken_links[k].type = "broken_link"
          /\ \E k \in FindingsAt(xref_report.undefined_gaps, p, i) :
                xref_report.undefined_gaps[k].type = "undefined_gap"
          /\ \E k \in FindingsAt(xref_report.term_issues, p, i) :
                xref_report.term_issues[k].type = "terminology"

\* every identifier of the defined set is on a line of the corpus outside `hidden`
DefinedOutside(hidden(_)) ==
    \A n \in defined_gaps :
        \E p \in Corpus : \E i \in 1..Len(fs[p].lines) :
            i \notin hidden(fs[p].lines) /\ n \in IdsOn(fs[p].lines[i])

(***************************************************************************)
(* C1  Fence correctness: in every checker, a line strictly between a      *)
(* fence-open delimiter line and its matching close (same character,       *)
(* run-length at least the opener's) is never treated as prose: nothing on *)
(* it appears in all_ids, definitions, duplicates, the defined set or any  *)
(* issue list.                                                             *)
(***************************************************************************)
C1_FenceCorrectness ==
    /\ \A p \in DOMAIN fs : \A i \in FencedInterior(fs[p].lines) : Silent(p, i)
    /\ DefinedOutside(FencedInterior)

\* a closed fence holds a definition and a reference: the report is silent about
\* them and holds the three findings of the next document's prose
C1_Witness ==
    /\ XrefRan
    /\ Lines(FileA) = <<LineFence3, LineDef, LineMention, LineFence3>>
    /\ 2 \notin defined_gaps
    /\ xref_report.summary.total = 3


(***************************************************************************)
(* C2  Fence closing rule: while a fence is open with opener (c, n), a     *)
(* delimiter line closes it if and only if it has the same character and a *)
(* run-length of at least n.  A shorter delimiter, or one of the other     *)
(* character, leaves the fence open: the lines after it stay non-prose     *)
(* until a matching closer is seen; the line after the matching closer is  *)
(* prose again.                                                            *)
(***************************************************************************)
C2_FenceClosingRule ==
    \A p \in DOMAIN fs :
        LET lines == fs[p].lines IN
        \A o \in Openers(lines, 1) :
            /\ \A j \in (o + 1)..Len(lines) :
                  (\A c \in (o + 1)..j : ~Matches(lines, o, c)) => Silent(p, j)
            /\ \A c \in (o + 1)..(Len(lines) - 1) :
                  c = MatchingClose(lines, o) /\ LoudLine(lines[c + 1]) => Heard(p, c + 1)

\* a fence of four backticks, a delimiter of three that does not close it, the
\* closer of four, and a reference line that is prose again
C2_Witness ==
    /\ XrefRan
    /\ Lines(FileA) = <<LineFence4, LineFence3, LineFence4, LineMention>>
    /\ FindingsAt(xref_report.issues, FileA, 2) = {}
    /\ Cardinality(FindingsAt(xref_report.issues, FileA, 4)) = 3

(***************************************************************************)
(* C3  A fence delimiter line is never itself prose, whether it opens a    *)
(* fence, closes one or is inert inside an open fence: an identifier, a    *)
(* link or a terminology variant written on it (in its info string)        *)
(* produces no occurrence and no finding.                                  *)
(***************************************************************************)
C3_DelimiterNeverProse ==
    \A p \in DOMAIN fs :
        \A i \in 1..Len(fs[p].lines) : IsDelimiter(fs[p].lines[i]) => Silent(p, i)

\* the delimiter with the info string opens a fence, closes it and is inert in a
\* fence of four backticks; the registry scan records nothing of it
C3_Witness ==
    /\ GapRan
    /\ Lines(FileA) = <<LineFence3, LineFence3, LineFence4, LineFence3>>
    /\ DOMAIN gap_report.all_ids = {0, 3}
    /\ Len(gap_report.all_ids[0]) = 1

(***************************************************************************)
(* C4  The fence state is reset at the start of each document in every     *)
(* scan loop: a fence left unclosed at the end of one document never makes *)
(* a line of another document non-prose.                                   *)
(***************************************************************************)
C4_FenceResetPerDocument ==
    \A p \in Corpus : \A q \in Corpus \ {p} :
        EndsUnclosed(fs[p].lines) =>
            \A i \in 1..Len(fs[q].lines) :
                IsProse(fs[q].lines, i) /\ LoudLine(fs[q].lines[i]) => Heard(q, i)

\* a.md ends inside a fence, and the definition and the reference of b.md are
\* reported
C4_Witness ==
    /\ XrefRan
    /\ Lines(FileA) = <<LineMention, LineFence4, LineDef>>
    /\ defined_gaps = {3}
    /\ Cardinality(FindingsAt(xref_report.issues, FileB, 2)) = 3

(***************************************************************************)
(* Definitions as the specification words them.                            *)
(***************************************************************************)
\* the text t from its first atom that is not tok on
DropRun(t, tok) == SubSeq(t, SkipRun(t, 1, tok), Len(t))

\* the identifier a table row has in its first cell or a heading has as its first
\* token after the marker, bold or not (-1: the line is neither)
LeadingId(line) ==
    LET t == Strip(line)
        cell == IF t # <<>> /\ t[1] = "|" THEN DropRun(Tail(t), " ")
                ELSE IF t # <<>> /\ t[1] = "#" /\ DropRun(t, "#") # <<>>
                        /\ Head(DropRun(t, "#")) = " "
                THEN DropRun(DropRun(t, "#"), " ")
                ELSE <<>>
        stars == SkipRun(cell, 1, "*") - 1
        lead == DropRun(cell, "*")
    IN  IF stars <= 2 /\ lead # <<>> /\ Head(lead) \in GapTokens
        THEN GapNumber[Head(lead)]
        ELSE -1

\* the documents with a Definition occurrence of n: an occurrence of n on a prose
\* line that is a table row or a heading led by an identifier
DefinitionDocs(n) ==
    {p \in Corpus :
        \E i \in 1..Len(fs[p].lines) :
            /\ IsProse(fs[p].lines, i)
            /\ LeadingId(fs[p].lines[i]) # -1
            /\ n \in IdsOn(fs[p].lines[i])}

\* the documents where n itself leads a table row or a heading
LeadingDocs(n) ==
    {p \in Corpus :
        \E i \in 1..Len(fs[p].lines) :
            IsProse(fs[p].lines, i) /\ LeadingId(fs[p].lines[i]) = n}

Ids == Range(GapNumber)

C6_AllocationMonotonicity ==
    GapRan =>
        /\ \A n \in DOMAIN gap_report.definitions : gap_report.next_id > n
        /\ DOMAIN gap_report.definitions = {} => gap_report.next_id = 1

\* two identifiers are defined and the next one is past both
C6_Witness ==
    /\ GapRan
    /\ DOMAIN gap_report.definitions = {1, 2}
    /\ gap_report.next_id = 3

(***************************************************************************)
(* C7  next_id is computed only from Definitions: an identifier that is    *)
(* only mentioned (it is never the identifier in the first cell of a table *)
(* row nor the first token of a heading) never raises next_id.             *)
(***************************************************************************)
C7_MentionsNeverRaiseNextId ==
    GapRan =>
        gap_report.next_id <= 1 + Max({0} \cup {n \in Ids : LeadingDocs(n) # {}})

(***************************************************************************)
(* C8  Reference completeness independent of scope: if an identifier has a *)
(* Definition in document A of the corpus and is referenced in document B, *)
(* then checking a target subset that contains B but not A reports no      *)
(* undefined-reference finding for that identifier.                        *)
(***************************************************************************)
C8_ReferenceCompleteness ==
    XrefRan =>
        \A A \in Corpus \ Targets : \A B \in Targets : \A n \in Ids :
            A \in LeadingDocs(n) =>
                \A k \in DOMAIN xref_report.undefined_gaps :
                    ~(/\ xref_report.undefined_gaps[k].file = B
                      /\ xref_report.undefined_gaps[k].gap_id = FormatGap(n))

(***************************************************************************)
(* C9  Undefined-reference findings are exact: the cross-reference check   *)
(* emits one finding for an identifier occurrence if and only if the       *)
(* occurrence is on a prose line of a target document and its identifier   *)
(* is absent from the Pass-1 Definition set; each such occurrence yields   *)
(* its own finding, carrying document, line number, identifier and trimmed *)
(* line text (of a line of at most 120 characters).                        *)
(***************************************************************************)
\* the number of occurrences of identifier n on a line
OccurrencesOn(line, n) ==
    Cardinality({j \in 1..Len(line) : GapMatchAt(line, j) /\ GapNumber[line[j]] = n})

BrokenOn(p, line) ==
    LET Missing(m) ==
            /\ RELATIVE_LINK_match(m.link_target)
            /\ ~Exists(fs, Resolve(<<>>, JoinPath(Parent(p),
                                  RELATIVE_LINK_group1(m.link_target))))
    IN  SelectSeq(MD_LINK_PATTERN_finditer(line, 1), Missing)

DirY(dir) == dir \o << <<"y", ".md">> >>

C10_LinksRelativeToSource ==
    XrefRan =>
        LET found == xref_report.broken_links IN
        /\ \A p \in Targets : \A i \in 1..Len(fs[p].lines) :
              LET at == SelectSeq(Indices(found),
                                  LAMBDA k : found[k].file = p /\ found[k].line = i)
                  broken == IF IsProse(fs[p].lines, i)
                            THEN BrokenOn(p, fs[p].lines[i]) ELSE <<>>
              IN  /\ Len(at) = Len(broken)
                  /\ \A k \in 1..Len(at) :
                        /\ found[at[k]].link_text = broken[k].link_text
                        /\ found[at[k]].resolved =
                              Resolve(<<>>, JoinPath(Parent(p), found[at[k]].target))
        /\ FileDoc \in Targets =>
              \A i \in 1..Len(fs[FileDoc].lines) :
                  /\ fs[FileDoc].lines[i] = LineLinkUp =>
                        (FindingsAt(found, FileDoc, i) # {}
                            <=> ~Exists(fs, DirY(<< <<"docs">>, <<"dir1">> >>)))
                  /\ fs[FileDoc].lines[i] = LineLinkHere =>
                        (FindingsAt(found, FileDoc, i) # {}
                            <=> ~Exists(fs, DirY(Parent(FileDoc))))

\* [x](../y.md) in docs/dir1/dir2/doc.md is reported, with docs/dir1/y.md as its
\* resolved path, although docs/y.md and docs/dir1/dir2/y.md exist
C10_Witness ==
    /\ XrefRan
    /\ DOMAIN fs = {FileDoc, DirY(docs_root), DirY(Parent(FileDoc))}
    /\ Lines(FileDoc) = <<LineLinkUp>>
    /\ Len(xref_report.broken_links) = 1
    /\ xref_report.broken_links[1].resolved = DirY(<< <<"docs">>, <<"dir1">> >>)


(***************************************************************************)
(* A second family of inputs: dictionaries of every kind, links that are   *)
(* not checkable, documents that cannot be read, and command lines whose   *)
(* scan root is no directory.                                              *)
(***************************************************************************)
\* SecKey see SECKEY   (two matches of the variant SecKey)
LineTwice == <<"SecKey", " ", "see", " ", "SECKEY">>

\* see `SecKey`   (the variant in an inline code span inside a prose line)
LineInline == <<"see", " ", Backtick, "SecKey", Backtick>>

\*  `SecKey` x   (a line of code: its trimmed text starts with a backtick)
LineCode == <<" ", Backtick, "SecKey", Backtick, " ", "x">>

\* sk x   (the second variant)
LineSk == <<"sk", " ", "x">>

TermLines == {LineTwice, LineInline, LineCode, LineSk, LineFence3}

\* [m](mailto:a.md) [s](#y.md) [p](y.png) [h](https://h/y.md)
LineLinkOut ==
    <<"[", "m", "]", "(", "mailto:", "a", ".md", ")", " ",
      "[", "s", "]", "(", "#", "y", ".md", ")", " ",
      "[", "p", "]", "(", "y", ".png", ")", " ",
      "[", "h", "]", "(", "https://", "h", "/", "y", ".md", ")">>

\* [q](y.md#sec.png) [x](y.md)   (an anchor may end in anything)
LineLinkAnchor ==
    <<"[", "q", "]", "(", "y", ".md", "#", "sec", ".png", ")", " ",
      "[", "x", "]", "(", "y", ".md", ")">>

OutLines == {LineLinkOut, LineLinkUrl, LineLinkAnchor}

\* GAP-003 [x](b.md)   (a reference to an identifier nothing defines, and a link
\* to the other document)
LineLinkB == <<"GAP-003", " ", "[", "x", "]", "(", "b", ".md", ")">>

IoLines == {LineRow, LineMention, LineLinkB}

\* a document outside the scan root, and the scan root as a plain file
FileO == << <<"other">>, <<"a", ".md">> >>

FileRoot == << <<"docs">> >>

\* a document read_text raises OSError or UnicodeDecodeError for
Unreadable(lines) == [lines |-> lines, readable |-> FALSE]

Terms2 == <<[canonical |-> "Secret Key", variants |-> <<"SecKey", "sk">>]>>

\* the dictionary files: none, one that is not JSON, a list with one entry of two
\* variants, the empty list, and one entry written as an object
Dictionaries ==
    {[kind |-> "absent", terms |-> <<>>],
     [kind |-> "unreadable", terms |-> <<>>],
     [kind |-> "list", terms |-> Terms2],
     [kind |-> "list", terms |-> <<>>],
     [kind |-> "object", terms |-> <<>>]}

ArgsWith(changed_files, terminology) ==
    [changed_files |-> changed_files, terminology |-> terminology]

\* the terminology corpora: a.md is any document of variant lines, b.md has the
\* variant in an inline code span
TermCorpora ==
    {(FileA :> File(a)) @@ (FileB :> File(<<LineInline>>)) :
        a \in SeqsUpTo(TermLines, MaxTermLines)}

\* the corpora of links that are not checkable, y.md being there or not
OutCorpora ==
    {(FileA :> File(a)) @@ [y \in ys |-> File(<<>>)] :
        a \in SeqsUpTo(OutLines, MaxOutLines),
        ys \in SUBSET {<< <<"docs">>, <<"y", ".md">> >>}}

\* the corpora of documents that can or cannot be read
IoCorpora ==
    {(FileA :> [lines |-> a, readable |-> ra]) @@ (FileB :> [lines |-> b, readable |-> rb]) :
        a \in SeqsUpTo(IoLines, MaxIoLines), b \in SeqsUpTo(IoLines, MaxIoLines),
        ra \in BOOLEAN, rb \in BOOLEAN}

\* the corpora without a scan root: docs is missing, or is a plain file
RootCorpora ==
    {(FileO :> File(a)) @@ [r \in rs |-> File(<<>>)] :
        a \in {<<>>, <<LineRow>>, <<LineMention>>}, rs \in SUBSET {FileRoot}}

InitEdge ==
    /\ \/ fs \in TermCorpora /\ argv \in {ArgsWith(<<>>, d) : d \in Dictionaries}
       \/ fs \in OutCorpora /\ argv = Args(<<>>)
       \/ /\ fs \in IoCorpora
          /\ argv \in {ArgsWith(c, d) :
                 c \in {<<>>, <<FileB, FileA>>},
                 d \in {[kind |-> "list", terms |-> Terms2],
                        [kind |-> "object", terms |-> <<>>]}}
       \/ fs \in RootCorpora /\ argv \in {Args(<<>>), Args(<<FileO>>)}
    /\ prog = "none"
    /\ exit_code = -1
    /\ gap_report = NoGapReport
    /\ xref_report = NoXrefReport
    /\ defined_gaps = {}

SpecEdge == InitEdge /\ [][Next]_vars


\* a checkable target, in the words of the specification: no absolute URL scheme,
\* no mailto: link, no same-document anchor, and an end in the document extension
\* that an in-document anchor may follow
IsCheckable(target) ==
    /\ target # <<>>
    /\ Head(target) \notin {"http://", "https://", "mailto:", "#"}
    /\ \E e \in 1..Len(target) :
          target[e] = ".md" /\ (e = Len(target) \/ target[e + 1] = "#")

\* the links of a line and the checkable ones among them
LinksOn(line) == MD_LINK_PATTERN_finditer(line, 1)

CheckableOn(line) ==
    SelectSeq(LinksOn(line), LAMBDA m : IsCheckable(m.link_target))

(***************************************************************************)
(* C11  Only checkable links can produce findings: a link target that      *)
(* starts with http://, https://, mailto: or #, or that does not end in    *)
(* .md optionally followed by a #anchor, never yields a Broken Link        *)
(* finding, whatever the state of the file system: every finding of a line *)
(* is the finding of a checkable link of that line, and a line has no more *)
(* findings than checkable links.                                          *)
(***************************************************************************)
C11_OnlyCheckableLinks ==
    XrefRan =>
        LET found == xref_report.broken_links IN
        /\ \A k \in DOMAIN found :
              /\ found[k].file \in DOMAIN fs
              /\ found[k].line \in 1..Len(fs[found[k].file].lines)
              /\ \E m \in Range(CheckableOn(fs[found[k].file].lines[found[k].line])) :
                    m.link_text = found[k].link_text
        /\ \A p \in DOMAIN fs : \A i \in 1..Len(fs[p].lines) :
              Cardinality(FindingsAt(found, p, i)) <= Len(CheckableOn(fs[p].lines[i]))

\* no y.md exists: the four links of line 1 (mailto:, #, .png, https://) give no
\* finding, the two checkable links of line 2 give one each
C11_Witness ==
    /\ XrefRan
    /\ DOMAIN fs = {FileA}
    /\ Lines(FileA) = <<LineLinkOut, LineLinkAnchor>>
    /\ FindingsAt(xref_report.broken_links, FileA, 1) = {}
    /\ Cardinality(FindingsAt(xref_report.broken_links, FileA, 2)) = 2


(***************************************************************************)
(* C12  Every Broken Link finding carries the source document, the line    *)
(* number, the link's display text, the raw target string exactly as       *)
(* written between the parentheses of the link (any #anchor suffix         *)
(* included), and the resolved absolute path.                              *)
(***************************************************************************)
C12_FindingCarriesRawTarget ==
    XrefRan =>
        LET found == xref_report.broken_links IN
        \A p \in Targets \cap DOMAIN fs : \A i \in 1..Len(fs[p].lines) :
            LET at == SelectSeq(Indices(found),
                                LAMBDA k : found[k].file = p /\ found[k].line = i)
                broken == IF IsProse(fs[p].lines, i)
                          THEN BrokenOn(p, fs[p].lines[i]) ELSE <<>>
            IN  /\ Len(at) = Len(broken)
                /\ \A k \in 1..Len(at) :
                      /\ found[at[k]].type = "broken_link"
                      /\ found[at[k]].link_text = broken[k].link_text
                      /\ found[at[k]].target = broken[k].link_target
                      /\ found[at[k]].resolved =
                            Resolve(<<>>, JoinPath(Parent(p),
                                RELATIVE_LINK_group1(broken[k].link_target)))


\* the lines of a document the terminology check excludes, in the words of the
\* specification: fence delimiter lines, lines inside an open fence, and lines
\* whose trimmed text starts with a backtick
IsCodeLine(line) == Strip(line) # <<>> /\ Head(Strip(line)) = Backtick

Excluded(lines, i) ==
    IsDelimiter(lines[i]) \/ i \in InOpenFence(lines) \/ IsCodeLine(lines[i])

\* the number of whole-word, case-insensitive matches of a variant on a line
WordMatches(variant, line) ==
    Cardinality({j \in 1..Len(line) :
        /\ Lower(line[j]) = Lower(variant)
        /\ (j = 1 \/ ~EndsWord(line[j - 1]))
        /\ (j = Len(line) \/ ~StartsWord(line[j + 1]))})

\* the (canonical, variant) pairs of the dictionary of the command line
Pairs ==
    IF argv.terminology.kind # "list" THEN {}
    ELSE UNION {{<<argv.terminology.terms[e].canonical, argv.terminology.terms[e].variants[v]>> :
                    v \in DOMAIN argv.terminology.terms[e].variants} :
                e \in DOMAIN argv.terminology.terms}

\* the terminology findings of line i of document p for a pair
TermFindings(p, i, pair) ==
    {k \in FindingsAt(xref_report.term_issues, p, i) :
        /\ xref_report.term_issues[k].canonical = pair[1]
        /\ xref_report.term_issues[k].found = pair[2]}

(***************************************************************************)
(* C13  Terminology findings are one per match: for every dictionary       *)
(* (canonical, variant) pair and every non-excluded line, the number of    *)
(* findings for the variant on the line equals the number of whole-word,   *)
(* case-insensitive matches of the variant on the line, each finding       *)
(* naming the variant and its canonical term.                              *)
(***************************************************************************)
C13_TerminologyOnePerMatch ==
    XrefRan =>
        \A p \in Targets \cap DOMAIN fs : \A i \in 1..Len(fs[p].lines) :
            \A pair \in Pairs :
                ~Excluded(fs[p].lines, i) =>
                    Cardinality(TermFindings(p, i, pair))
                        = WordMatches(pair[2], fs[p].lines[i])


\* a variant of the dictionary stands in an inline code span of the line: between
\* two backticks
InInlineCode(line) ==
    \E j \in 2..(Len(line) - 1) : \E pair \in Pairs :
        /\ Lower(line[j]) = Lower(pair[2])
        /\ line[j - 1] = Backtick
        /\ line[j + 1] = Backtick

(***************************************************************************)
(* C14  Terminology exclusion set: a line yields no terminology finding if *)
(* it is a fence delimiter line, lies inside an open fence, or its trimmed *)
(* text starts with a backtick; conversely a variant inside an inline code *)
(* span in the middle of an otherwise prose line is still reported (of the *)
(* documents that were read).                                              *)
(***************************************************************************)
C14_TerminologyExclusion ==
    XrefRan =>
        \A p \in Targets \cap DOMAIN fs : \A i \in 1..Len(fs[p].lines) :
            /\ Excluded(fs[p].lines, i) =>
                  FindingsAt(xref_report.term_issues, p, i) = {}
            /\ fs[p].readable /\ ~Excluded(fs[p].lines, i) =>
                  \A pair \in Pairs :
                      WordMatches(pair[2], fs[p].lines[i]) > 0 =>
                          TermFindings(p, i, pair) # {}

\* line 1 starts with a backtick and is silent; line 2 has the variant in an
\* inline code span after a word and is reported
C14_Witness ==
    /\ XrefRan
    /\ Pairs # {}
    /\ Lines(FileA) = <<LineCode, LineInline>>
    /\ InInlineCode(Lines(FileA)[2])
    /\ FindingsAt(xref_report.term_issues, FileA, 1) = {}
    /\ Cardinality(FindingsAt(xref_report.term_issues, FileA, 2)) = 1


\* the dictionary of the command line is absent, empty, unreadable or malformed
NoDictionary == argv.terminology.kind # "list" \/ argv.terminology.terms = <<>>

(***************************************************************************)
(* C15  The terminology dictionary is optional and never fatal: with an    *)
(* absent, empty, unreadable or malformed dictionary (invalid JSON, or     *)
(* valid JSON that is not a list of entries) the terminology check returns *)
(* zero findings without raising an error, and the link and reference      *)
(* checks still complete: the run ends with its report, which holds their  *)
(* findings and no terminology finding.                                    *)
(***************************************************************************)
C15_DictionaryNeverFatal ==
    prog = "xref_check" /\ NoDictionary /\ IsDir(fs, docs_root) =>
        /\ xref_report.printed
        /\ xref_report.term_issues = <<>>
        /\ xref_report.summary.total =
              Len(xref_report.broken_links) + Len(xref_report.undefined_gaps)


\* the documents that cannot be read, the file system without document p, and the
\* file system with document p readable and empty
Unread == {p \in DOMAIN fs : ~fs[p].readable}

Without(p) == [q \in DOMAIN fs \ {p} |-> fs[q]]

Emptied(p) == [fs EXCEPT ![p] = File(<<>>)]

\* a registry index names document p
IndexNames(index, p) ==
    \E n \in DOMAIN index : \E k \in DOMAIN index[n] :
        index[n][k].file = RelativeTo(p, docs_root)

C17_InputErrorsFatal ==
    prog # "none" /\ ~IsDir(fs, docs_root) =>
        /\ exit_code # 0
        /\ ~gap_report.printed
        /\ ~xref_report.printed

(***************************************************************************)
(* C18  Exit signalling as a pipeline gate: a run that ends with a report  *)
(* exits with success if and only if it produced zero content findings;    *)
(* any finding (broken link, undefined reference, terminology drift or     *)
(* duplicate definition) makes the process exit non-success.               *)
(***************************************************************************)
C18_ExitSignalsFindings ==
    /\ GapRan => (exit_code = 0 <=> DOMAIN gap_report.duplicates = {})
    /\ XrefRan => (exit_code = 0 <=> xref_report.issues = <<>>)


\* the place of document p in the scan order of the run
ScanPosition(p) ==
    LET files == find_md_files(fs, docs_root, argv.changed_files)
    IN  Min({i \in 1..Len(files) : files[i] = p})

\* the findings of a list follow the document scan order and, within one
\* document, have non-decreasing line numbers
InScanOrder(list) ==
    \A j \in DOMAIN list : \A k \in DOMAIN list :
        j < k =>
            \/ ScanPosition(list[j].file) < ScanPosition(list[k].file)
            \/ /\ list[j].file = list[k].file
               /\ list[j].line <= list[k].line

(***************************************************************************)
(* C19  Report ordering: the merged issue list is the concatenation links, *)
(* then references, then terminology, and inside each of the three         *)
(* categories the findings are ordered by document scan order and, within  *)
(* one document, by non-decreasing line number.                            *)
(***************************************************************************)
C19_ReportOrdering ==
    XrefRan =>
        /\ xref_report.issues =
              xref_report.broken_links \o xref_report.undefined_gaps
                  \o xref_report.term_issues
        /\ InScanOrder(xref_report.broken_links)
        /\ InScanOrder(xref_report.undefined_gaps)
        /\ InScanOrder(xref_report.term_issues)


\* the orders a set of documents can be scanned in
Perms(S) == {s \in [1..Cardinality(S) -> S] : Range(s) = S}

\* two lists hold the same elements the same number of times
SameBag(s, t) ==
    /\ Len(s) = Len(t)
    /\ \A x \in Range(s) \cup Range(t) :
          Cardinality({i \in DOMAIN s : s[i] = x}) = Cardinality({i \in DOMAIN t : t[i] = x})

\* the registry scan made over the documents in the order `order`
ScanIn(order) ==
    Grouped(Flatten([i \in 1..Len(order) |-> ScanFile(fs, docs_root, order[i])]))

\* the consistency report of the documents checked in the order `order`
XrefIn(order) == XrefReport(fs, docs_root, [argv EXCEPT !.changed_files = order])

(***************************************************************************)
(* C21  Order independence at document level: permuting the order in which *)
(* documents are scanned changes neither the occurrences of an identifier, *)
(* the definition set, the duplicate set, next_id, nor the multiset of     *)
(* findings in each category; only the order of the lists may change.      *)
(***************************************************************************)
C21_OrderIndependence ==
    /\ GapRan =>
          \A order \in Perms(Rglob(fs, docs_root)) :
              LET all_ids == ScanIn(order)
                  definitions == find_definitions(all_ids)
              IN  /\ DOMAIN all_ids = DOMAIN gap_report.all_ids
                  /\ \A n \in DOMAIN all_ids : SameBag(all_ids[n], gap_report.all_ids[n])
                  /\ DOMAIN definitions = DOMAIN gap_report.definitions
                  /\ \A n \in DOMAIN definitions :
                        SameBag(definitions[n], gap_report.definitions[n])
                  /\ DOMAIN Duplicates(definitions) = DOMAIN gap_report.duplicates
                  /\ NextId(MaxId(definitions)) = gap_report.next_id
    /\ XrefRan =>
          \A order \in Perms(Range(find_md_files(fs, docs_root, argv.changed_files))) :
              order # <<>> =>
                  /\ SameBag(XrefIn(order).broken_links, xref_report.broken_links)
                  /\ SameBag(XrefIn(order).undefined_gaps, xref_report.undefined_gaps)
                  /\ SameBag(XrefIn(order).term_issues, xref_report.term_issues)

\* b.md was checked before a.md and both have findings: checked in the other
\* order the lists differ, the multisets do not
C21_Witness ==
    /\ XrefRan
    /\ argv.changed_files = <<FileB, FileA>>
    /\ Lines(FileA) = <<LineMention>>
    /\ Lines(FileB) = <<LineLinkB>>
    /\ FileA \notin Unread /\ FileB \notin Unread
    /\ XrefIn(<<FileA, FileB>>).issues # xref_report.issues
    /\ xref_report.summary.total = 4


\* the number of findings of a type in the issue list of the report
CountOf(type) ==
    Cardinality({k \in DOMAIN xref_report.issues : xref_report.issues[k].type = type})

(***************************************************************************)
(* C22  Summary consistency: in every consistency report the three         *)
(* per-category counts equal the number of findings of that type in the    *)
(* issue list, and total equals their sum and the length of the issue      *)
(* list.                                                                   *)
(***************************************************************************)
C22_SummaryConsistency ==
    XrefRan =>
        LET summary == xref_report.summary IN
        /\ summary.broken_links = CountOf("broken_link")
        /\ summary.undefined_gaps = CountOf("undefined_gap")
        /\ summary.terminology = CountOf("terminology")
        /\ summary.total = summary.broken_links + summary.undefined_gaps + summary.terminology
        /\ summary.total = Len(xref_report.issues)

\* a report with one finding of each type
C22_Witness ==
    /\ XrefRan
    /\ CountOf("broken_link") = 1
    /\ CountOf("undefined_gap") = 1
    /\ CountOf("terminology") = 1
    /\ xref_report.summary.total = 3


(***************************************************************************)
(* A third family of inputs: registries with repeated identifiers, long    *)
(* and indented lines and a document in a subdirectory; documents outside  *)
(* the scan root named on the command line; and fences with delimiters of  *)
(* both characters and two lengths.                                        *)
(***************************************************************************)
\* GAP-002 GAP-002 ... GAP-002   (twenty times: 159 characters)
LineLong == [i \in 1..39 |-> IF i % 2 = 1 THEN "GAP-002" ELSE " "]

RowLines == {LineRow, LineLong, LineIndentedRow, LineRowZero, LineFence3}

SubLines == {LineRow}

OuterLines == {LineRow, LineRefs, LineHeading}

NestLines == {LineFence4, LineTilde3, LineMention}

\* a document in a subdirectory of the scan root
FileSub == << <<"docs">>, <<"dir1">>, <<"b", ".md">> >>

\* the registries: a.md and dir1/b.md, the latter readable or not
RowCorpora ==
    UNION {{(FileA :> File(a)) @@ (FileSub :> [lines |-> b, readable |-> rb]) :
               a \in SeqsUpTo(RowLines, MaxRowLines),
               rb \in IF b = <<>> THEN {TRUE} ELSE BOOLEAN} :
           b \in SeqsUpTo(SubLines, MaxSubLines)}

\* a document under the scan root and one outside it
OuterCorpora ==
    {(FileA :> File(a)) @@ (FileO :> File(o)) :
        a \in {<<>>, <<LineRow>>}, o \in SeqsUpTo(OuterLines, MaxOuterLines)}

\* documents of delimiters and a line every checker reports, before DocAfter
NestCorpora ==
    {(FileA :> File(a)) @@ (FileB :> File(DocAfter)) :
        a \in SeqsUpTo(NestLines, MaxNestLines)}

InitReg ==
    /\ \/ fs \in RowCorpora /\ argv = Args(<<>>)
       \/ fs \in OuterCorpora /\ argv \in {Args(<<FileO>>), Args(<<FileO, FileA>>)}
       \/ fs \in NestCorpora /\ argv = Args(<<>>)
    /\ prog = "none"
    /\ exit_code = -1
    /\ gap_report = NoGapReport
    /\ xref_report = NoXrefReport
    /\ defined_gaps = {}

SpecReg == InitReg /\ [][Next]_vars

\* the trimmed text of a line cut to at most 120 characters: the text itself
\* when it is that short, else its longest prefix that is
IsCutOf(text, line) ==
    LET t == Strip(line) IN
    /\ IsPrefix(text, t)
    /\ CharLen(text) <= TextLimit
    /\ text # t => CharLen(SubSeq(t, 1, Len(text) + 1)) > TextLimit

\* the occurrences the registry holds for identifier n on line i of document p
Recorded(n, p, i) ==
    IF n \notin DOMAIN gap_report.all_ids THEN {}
    ELSE {k \in DOMAIN gap_report.all_ids[n] :
             /\ gap_report.all_ids[n][k].file = RelativeTo(p, docs_root)
             /\ gap_report.all_ids[n][k].line = i}

(***************************************************************************)
(* C23  Registry scan completeness: the scan records exactly one           *)
(* occurrence for every match of the identifier pattern on every prose     *)
(* line of every readable document (k matches on one line give k           *)
(* occurrences, also of one identifier), each with the document's          *)
(* root-relative path, the 1-based line number and the trimmed line text   *)
(* cut to at most 120 characters, and records nothing for other lines.     *)
(***************************************************************************)
C23_ScanCompleteness ==
    GapRan =>
        /\ \A p \in Rglob(fs, docs_root) : \A i \in 1..Len(fs[p].lines) : \A n \in Ids :
              /\ Cardinality(Recorded(n, p, i))
                    = IF fs[p].readable /\ IsProse(fs[p].lines, i)
                      THEN OccurrencesOn(fs[p].lines[i], n)
                      ELSE 0
              /\ \A k \in Recorded(n, p, i) :
                    IsCutOf(gap_report.all_ids[n][k].text, fs[p].lines[i])
        /\ \A n \in DOMAIN gap_report.all_ids : \A k \in DOMAIN gap_report.all_ids[n] :
              \E p \in Rglob(fs, docs_root) :
                  /\ gap_report.all_ids[n][k].file = SubSeq(p, 2, Len(p))
                  /\ gap_report.all_ids[n][k].line \in 1..Len(fs[p].lines)

\* the long line gives twenty occurrences of GAP-002 with a text of 120
\* characters, the line of dir1/b.md one of GAP-001 under its relative path
C23_Witness ==
    /\ GapRan
    /\ Lines(FileA) = <<LineRow, LineLong>>
    /\ Lines(FileSub) = <<LineRow>>
    /\ FileSub \notin Unread
    /\ Len(gap_report.all_ids[2]) = 20
    /\ CharLen(gap_report.all_ids[2][1].text) = TextLimit
    /\ Len(gap_report.all_ids[1]) = 2
    /\ gap_report.all_ids[1][2].file = << <<"dir1">>, <<"b", ".md">> >>


\* the delimiter lines between an opener and its matching close: none of them
\* satisfies the closing rule
InertBetween(lines, o, c) == {d \in (o + 1)..(c - 1) : IsDelimiter(lines[d])}

(***************************************************************************)
(* C24  Single-level fence tracking: while a fence is open, a delimiter    *)
(* line that does not satisfy the closing rule is inert: it leaves the     *)
(* recorded opener unchanged, opens no nested fence and does not replace   *)
(* the opener, so the next line that matches the original opener closes    *)
(* the fence (the line after it is prose again, and nothing from the       *)
(* opener to the closer is).                                               *)
(***************************************************************************)
C24_SingleLevelFence ==
    \A p \in DOMAIN fs :
        LET lines == fs[p].lines IN
        \A o \in Openers(lines, 1) :
            LET c == MatchingClose(lines, o) IN
            c # 0 /\ InertBetween(lines, o, c) # {} =>
                /\ \A i \in o..c : Silent(p, i)
                /\ c < Len(lines) /\ LoudLine(lines[c + 1]) => Heard(p, c + 1)

\* a fence of four backticks holds a tilde delimiter; the next line of four
\* backticks closes it and the line after that has its three findings
C24_Witness ==
    /\ XrefRan
    /\ Lines(FileA) = <<LineFence4, LineTilde3, LineFence4, LineMention>>
    /\ \A i \in 1..3 : FindingsAt(xref_report.issues, FileA, i) = {}
    /\ Cardinality(FindingsAt(xref_report.issues, FileA, 4)) = 3


\* the definition occurrences the registry holds for identifier n on line i of
\* document p
RecordedDefinitions(n, p, i) ==
    IF n \notin DOMAIN gap_report.definitions THEN {}
    ELSE {k \in DOMAIN gap_report.definitions[n] :
             /\ gap_report.definitions[n][k].file = RelativeTo(p, docs_root)
             /\ gap_report.definitions[n][k].line = i}

\* the prose lines of the readable documents under the scan root
ProseLines == {pi \in Corpus \X (1..MaxNestLines) :
                  /\ fs[pi[1]].readable
                  /\ pi[2] \in 1..Len(fs[pi[1]].lines)
                  /\ IsProse(fs[pi[1]].lines, pi[2])}

(***************************************************************************)
(* C25  Definition classification is a function of the line's trimmed      *)
(* text: an occurrence on a prose line is a Definition exactly when the    *)
(* trimmed text of the line is a table row whose first cell is an          *)
(* identifier or a heading whose first token is one, whatever whitespace   *)
(* surrounds the line and wherever it stands; so the registry lists an     *)
(* occurrence under definitions exactly on such lines, and Pass 1 of the   *)
(* cross-reference check holds the identifier that leads such a line.      *)
(***************************************************************************)
C25_ClassificationByTrimmedText ==
    /\ GapRan =>
          \A pi \in ProseLines : \A n \in IdsOn(fs[pi[1]].lines[pi[2]]) :
              RecordedDefinitions(n, pi[1], pi[2]) # {}
                  <=> LeadingId(fs[pi[1]].lines[pi[2]]) # -1
    /\ XrefRan =>
          \A pi \in ProseLines :
              LeadingId(fs[pi[1]].lines[pi[2]]) # -1 =>
                  LeadingId(fs[pi[1]].lines[pi[2]]) \in defined_gaps


\* the identifiers the cross-reference check reported as undefined
ReportedUndefined ==
    {n \in Ids : \E k \in DOMAIN xref_report.undefined_gaps :
                    xref_report.undefined_gaps[k].gap_id = FormatGap(n)}

(***************************************************************************)
(* C26  The registry and the cross-reference check agree on what is        *)
(* defined: the set Pass 1 collects equals the key set of the registry's   *)
(* definitions computed over the same documents, indented rows and         *)
(* headings included, so an identifier the allocation report lists as      *)
(* defined is never reported as an undefined reference.                    *)
(***************************************************************************)
C26_RegistryAgreesWithPass1 ==
    XrefRan =>
        LET definitions == find_definitions(scan_gap_ids(fs, docs_root)) IN
        /\ defined_gaps = DOMAIN definitions
        /\ ReportedUndefined \cap DOMAIN definitions = {}


\* the undefined-reference findings for identifier n on line i of document p
UndefinedAt(n, p, i) ==
    {k \in DOMAIN xref_report.undefined_gaps :
        /\ xref_report.undefined_gaps[k].file = p
        /\ xref_report.undefined_gaps[k].line = i
        /\ xref_report.undefined_gaps[k].gap_id = FormatGap(n)}

(***************************************************************************)
(* C27  A Definition occurrence is never itself reported as an undefined   *)
(* reference: in every checked document, the identifier that leads a table *)
(* row or a heading on a prose line yields no undefined-reference finding  *)
(* on that line, also when the document is named in the changed-files list *)
(* and lies outside the scan root.                                         *)
(***************************************************************************)
C27_DefinitionNeverUndefined ==
    XrefRan =>
        \A p \in Targets : \A i \in 1..Len(fs[p].lines) :
            LET n == LeadingId(fs[p].lines[i]) IN
            fs[p].readable /\ IsProse(fs[p].lines, i) /\ n # -1 =>
                UndefinedAt(n, p, i) = {}


\* s is t with some of its elements left out, the rest in t's order
RECURSIVE IsSubList(_, _)
IsSubList(s, t) ==
    IF s = <<>> THEN TRUE
    ELSE IF t = <<>> THEN FALSE
    ELSE IF Head(s) = Head(t) THEN IsSubList(Tail(s), Tail(t))
    ELSE IsSubList(s, Tail(t))

(***************************************************************************)
(* C28  Containment of the allocation report: the keys of duplicates are   *)
(* among the keys of definitions, which are among the keys of all_ids; the *)
(* definition occurrences of an identifier are a sub-list of its all_ids   *)
(* occurrences in the same order, and the duplicates entry of an           *)
(* identifier is its complete definition list, repeated definitions in one *)
(* document included.                                                      *)
(***************************************************************************)
C28_ReportContainment ==
    GapRan =>
        /\ DOMAIN gap_report.duplicates \subseteq DOMAIN gap_report.definitions
        /\ DOMAIN gap_report.definitions \subseteq DOMAIN gap_report.all_ids
        /\ \A n \in DOMAIN gap_report.definitions :
              /\ gap_report.definitions[n] # <<>>
              /\ IsSubList(gap_report.definitions[n], gap_report.all_ids[n])
        /\ \A n \in DOMAIN gap_report.duplicates :
              gap_report.duplicates[n] = gap_report.definitions[n]

\* GAP-001 is defined twice in a.md and once in dir1/b.md: its duplicates entry
\* holds all three definitions
C28_Witness ==
    /\ GapRan
    /\ Lines(FileA) = <<LineRow, LineRow>>
    /\ Lines(FileSub) = <<LineRow>>
    /\ fs[FileSub].readable
    /\ Len(gap_report.duplicates[1]) = 3


(***************************************************************************)
(* C29  max_id and next_id are consistent with definitions: max_id is      *)
(* absent exactly when the definition set is empty; otherwise max_id is    *)
(* the largest defined identifier, also when that is GAP-000, and          *)
(* next_id = max_id + 1.                                                   *)
(***************************************************************************)
C29_MaxIdConsistency ==
    GapRan =>
        /\ gap_report.max_id = -1 <=> DOMAIN gap_report.definitions = {}
        /\ DOMAIN gap_report.definitions # {} =>
              /\ gap_report.max_id = Max(DOMAIN gap_report.definitions)
              /\ gap_report.next_id = gap_report.max_id + 1


\* the lines from a fence-open line without a matching close to the end of the
\* document
UnclosedTail(lines) ==
    {i \in 1..Len(lines) :
        \E o \in Openers(lines, 1) : MatchingClose(lines, o) = 0 /\ o <= i}

(***************************************************************************)
(* C30  Unclosed fence: if a document holds a fence-open delimiter and no   *)
(* later delimiter line of the same character with a run-length of at      *)
(* least the opener's, every line from the opener to the end of the        *)
(* document is non-prose in every checker: no identifier occurrence, no    *)
(* definition and no link, reference or terminology finding comes from     *)
(* those lines.                                                            *)
(***************************************************************************)
C30_UnclosedFence ==
    /\ \A p \in DOMAIN fs : \A i \in UnclosedTail(fs[p].lines) : Silent(p, i)
    /\ DefinedOutside(UnclosedTail)

\* three tildes open a fence that the backtick delimiter does not close: the
\* line after it, a link, a reference and a variant, yields nothing, and the
\* report holds the three findings of the next document alone
C30_Witness ==
    /\ XrefRan
    /\ Lines(FileA) = <<LineTilde3, LineFence4, LineMention>>
    /\ FindingsAt(xref_report.issues, FileA, 3) = {}
    /\ xref_report.summary.total = 3

=============================================================================
